---- MODULE Spec2Model ----
(***************************************************************************)
(* Event-log record store: EventLogWriter (data/event-log-writer.js) and   *)
(* EventLogService (services/event-log-service.js) over a spreadsheet with *)
(* one sheet per event type.                                               *)
(*                                                                         *)
(* Cells are strings.  A payload ("data") is a record over DataKeys whose  *)
(* absent keys hold Undef (JavaScript's undefined).  A sheet is the        *)
(* sequence of its data rows: element i is the row at rowIndex i + 1, row  *)
(* 1 being the header.  An action runs a call from one store mutation to   *)
(* the point where it has issued its next one: reads and the synchronous   *)
(* code around them are part of the step that follows them.                *)
(***************************************************************************)
EXTENDS Integers, Sequences, FiniteSets, TLC

VARIABLES sheets, cache, clock, procs, ncalls, hook, calendar, reads, listing

\* The event store and the calls on it; the collaborators around it.
others == <<hook, calendar, reads, listing>>
vars == <<sheets, cache, clock, procs, ncalls, hook, calendar, reads, listing>>

\* ------------------------------------------------------------------ bounds
MaxClock == 1
MaxCalls == 3
MaxRows == 3

Procs == {1, 2}
\* The single caller of the single-flow specification.
Callers == {1}

\* ------------------------------------------------------------ JS values
Undef == "undefined"

Truthy(s) == s # Undef /\ s # ""

\* A rowIndex argument as JavaScript sees it: an integer number (kind "int",
\* value n), the number n + 0.5 (kind "frac"), or a string (kind "str") made
\* of the decimal digits of n (when n >= 0) followed by the text rest.
IntArg(n) == [kind |-> "int", n |-> n, rest |-> ""]
FracArg(n) == [kind |-> "frac", n |-> n, rest |-> ".5"]
StrArg(n, rest) == [kind |-> "str", n |-> n, rest |-> rest]

\* String(v), as in a template literal.
TextOf(v) == IF v.n >= 0 \/ v.kind # "str" THEN ToString(v.n) \o v.rest ELSE v.rest

\* A JavaScript number: NaN, or n (whole), or n + 0.5.
NaN == [nan |-> TRUE, whole |-> FALSE, n |-> 0]
Whole(n) == [nan |-> FALSE, whole |-> TRUE, n |-> n]
Half(n) == [nan |-> FALSE, whole |-> FALSE, n |-> n]

\* parseInt(v): the leading integer of String(v).
ParseInt(v) ==
    IF v.kind = "str" /\ v.n < 0 THEN NaN ELSE Whole(v.n)

\* Number(v): the whole string must be numeric.
ToNumber(v) ==
    CASE v.kind = "int" -> Whole(v.n)
      [] v.kind = "frac" -> Half(v.n)
      [] OTHER -> IF v.n >= 0 /\ v.rest = "" THEN Whole(v.n) ELSE NaN

IsInteger(x) == ~x.nan /\ x.whole

\* v <= 1 after numeric conversion (false for NaN).
LeqOne(v) ==
    LET x == ToNumber(v)
    IN  ~x.nan /\ (IF x.whole THEN x.n <= 1 ELSE x.n <= 0)

\* new Date(ms).toISOString() and `EVT${Date.now()}`.
Iso(t) == "T" \o ToString(t)
EventIdAt(t) == "EVT" \o ToString(t)

\* parseInt of a cell holding a revision.
ParseRev(s) ==
    IF \E k \in -1 .. MaxCalls + 2 : ToString(k) = s
    THEN Whole(CHOOSE k \in -1 .. MaxCalls + 2 : ToString(k) = s)
    ELSE NaN

\* ------------------------------------------------------------- schema
EventTypes == {"general", "iot", "dt", "dx"}

_getSheetNameByType(type) ==
    CASE type = "iot" -> "EVENT_LOGS_IOT"
      [] type = "dt" -> "EVENT_LOGS_DT"
      [] type = "dx" -> "EVENT_LOGS_DX"
      [] OTHER -> "EVENT_LOGS_GENERAL"

SheetNames == {_getSheetNameByType(t) : t \in EventTypes}

EVENT_LOG_COMMON_FIELDS ==
    <<"EventID", "EventName", "Creator", "CreatedTime", "LastModifiedTime", "Revision">>
EVENT_LOG_IOT_FIELDS == <<"DeviceScale">>
EVENT_LOG_DT_FIELDS == <<"ProcessingType">>

_getFieldsByType(type) ==
    CASE type = "iot" -> EVENT_LOG_COMMON_FIELDS \o EVENT_LOG_IOT_FIELDS
      [] type = "dt" -> EVENT_LOG_COMMON_FIELDS \o EVENT_LOG_DT_FIELDS
      [] OTHER -> EVENT_LOG_COMMON_FIELDS

\* The column labels are written in English here: "EventID" for the label of
\* the event id column, "Revision" for that of the revision column, and so on.
HEADER_TO_KEY_MAP(header) ==
    CASE header = "EventID" -> "eventId"
      [] header = "EventName" -> "eventName"
      [] header = "Creator" -> "creator"
      [] header = "CreatedTime" -> "createdTime"
      [] header = "LastModifiedTime" -> "lastModifiedTime"
      [] header = "Revision" -> "editCount"
      [] header = "DeviceScale" -> "iot_deviceScale"
      [] header = "ProcessingType" -> "dt_processingType"
      [] OTHER -> Undef

\* The key a column is filled from: the shared label DeviceScale is resolved by
\* the payload's event type first.
KeyOfHeader(header, eventType) ==
    IF header = "DeviceScale"
    THEN CASE eventType = "iot" -> "iot_deviceScale"
           [] eventType = "dt" -> "dt_deviceScale"
           [] OTHER -> HEADER_TO_KEY_MAP(header)
    ELSE HEADER_TO_KEY_MAP(header)

DataKeys ==
    {"eventType", "eventId", "id", "eventName", "creator", "createdTime",
     "lastModifiedTime", "editCount", "iot_deviceScale", "dt_deviceScale",
     "dt_processingType", "syncToCalendar", "eventContent"}

NoData == [k \in DataKeys |-> Undef]

\* data[key], undefined for a key no payload carries.
Field(data, key) == IF key \in DOMAIN data THEN data[key] ELSE Undef

IndexOf(seq, x) == CHOOSE i \in 1 .. Len(seq) : seq[i] = x

\* The cell of a row under a header of the common schema.
Cell(row, header) ==
    LET i == IndexOf(EVENT_LOG_COMMON_FIELDS, header)
    IN  IF i <= Len(row) THEN row[i] ELSE ""

\* ------------------------------------------------------------- the writer
\* createEventLog: the row appended for (data, creator) at clock reading t.
CreateRowData(data, creator, t) ==
    LET headers == _getFieldsByType(data.eventType)
    IN  [i \in 1 .. Len(headers) |->
            LET header == headers[i]
                key == KeyOfHeader(header, data.eventType)
            IN  CASE header = "EventID" -> EventIdAt(t)
                  [] header = "Creator" -> creator
                  [] header = "CreatedTime" -> Iso(t)
                  [] header = "LastModifiedTime" -> Iso(t)
                  [] header = "Revision" -> "1"
                  [] OTHER -> IF key # Undef /\ Field(data, key) # Undef
                              THEN Field(data, key) ELSE ""]

\* updateEventLog, step 1: the row read, padded to the schema width.
PadRowUndefined(row, width) ==
    [i \in 1 .. width |-> IF i <= Len(row) THEN row[i] ELSE Undef]
PadRow(row, width) ==
    [i \in 1 .. width |-> IF i <= Len(row) THEN row[i] ELSE ""]

\* The revision written back: (parseInt(current) || 1) + 1.
NextRevision(cell) ==
    LET v == ParseRev(cell)
        currentVer == IF v.nan \/ v.n = 0 THEN 1 ELSE v.n
    IN  ToString(currentVer + 1)

\* updateEventLog, step 2: the row written back for (currentRow, data) at
\* the time `now` taken on entry.
UpdateRowDataClearing(currentRow, data, now) ==
    LET headers == _getFieldsByType(data.eventType)
        padded == PadRow(currentRow, Len(headers))
    IN  [i \in 1 .. Len(headers) |->
            LET header == headers[i]
                key == KeyOfHeader(header, data.eventType)
            IN  CASE header = "LastModifiedTime" -> now
                  [] header = "Revision" -> NextRevision(padded[i])
                  [] OTHER -> IF key # Undef /\ Field(data, key) # Undef
                              THEN Field(data, key) ELSE ""]
UpdateRowData(currentRow, data, now) ==
    LET headers == _getFieldsByType(data.eventType)
        padded == PadRow(currentRow, Len(headers))
    IN  [i \in 1 .. Len(headers) |->
            LET header == headers[i]
                key == KeyOfHeader(header, data.eventType)
            IN  CASE header = "LastModifiedTime" -> now
                  [] header = "Revision" -> NextRevision(padded[i])
                  [] OTHER -> IF key # Undef /\ Field(data, key) # Undef
                              THEN Field(data, key) ELSE padded[i]]

\* The guard on entry of updateEventLog.
InvalidRowIndex(rowIndex) == ParseInt(rowIndex).nan \/ LeqOne(rowIndex)

\* -------------------------------------------------------------- the store
\* The row number an A1 range "Sheet!A<rowIndex>:..." addresses; the store
\* rejects a range whose row part is not a decimal number.
ValidRange(rowIndex) ==
    rowIndex.kind = "int" \/ (rowIndex.kind = "str" /\ rowIndex.n >= 0 /\ rowIndex.rest = "")

\* A read drops the trailing empty cells of a row.
RECURSIVE TrimTrailingEmpty(_)
TrimTrailingEmpty(row) ==
    IF Len(row) = 0 \/ row[Len(row)] # "" THEN row
    ELSE TrimTrailingEmpty(SubSeq(row, 1, Len(row) - 1))

Min(a, b) == IF a <= b THEN a ELSE b

\* values.get of row n of a sheet, width columns wide: [] when nothing is there.
StoreGet(sh, sheetName, n, width) ==
    IF n < 2 \/ n - 1 > Len(sh[sheetName]) THEN <<>>
    ELSE LET row == sh[sheetName][n - 1]
         IN  TrimTrailingEmpty(SubSeq(row, 1, Min(width, Len(row))))

\* values.append: the row goes after the last row of the sheet.
StoreAppend(sh, sheetName, row) ==
    [sh EXCEPT ![sheetName] = Append(@, row)]

\* values.update of row n: the cells of the range are overwritten, cells to
\* the right of it are kept, rows between the content and n are left blank.
StoreUpdate(sh, sheetName, n, row) ==
    LET old == sh[sheetName]
        len == IF n - 1 > Len(old) THEN n - 1 ELSE Len(old)
    IN  [sh EXCEPT ![sheetName] =
            [i \in 1 .. len |->
                IF i = n - 1
                THEN (IF i <= Len(old) /\ Len(old[i]) > Len(row)
                      THEN row \o SubSeq(old[i], Len(row) + 1, Len(old[i]))
                      ELSE row)
                ELSE IF i <= Len(old) THEN old[i] ELSE <<>>]]

\* BaseWriter._deleteRow: the physical row is removed and the rows below it
\* move up; a row index with no row removes nothing.
StoreDelete(sh, sheetName, n) ==
    LET old == sh[sheetName]
    IN  IF n < 2 \/ n - 1 > Len(old) THEN sh
        ELSE [sh EXCEPT ![sheetName] =
                 SubSeq(old, 1, n - 2) \o SubSeq(old, n, Len(old))]

\* ------------------------------------------------------------- the reader
\* A row of the sheet of eventType, as the record the reader hands out.
RowToRecord(eventType, row, rowIndex) ==
    [eventId |-> Cell(row, "EventID"),
     eventType |-> eventType,
     rowIndex |-> rowIndex,
     eventName |-> Cell(row, "EventName"),
     creator |-> Cell(row, "Creator"),
     createdTime |-> Cell(row, "CreatedTime"),
     lastModifiedTime |-> Cell(row, "LastModifiedTime"),
     editCount |-> Cell(row, "Revision")]

\* new Date(iso).getTime(); -1 stands for an unparsable date.
ParseIso(s) ==
    IF \E t \in 0 .. MaxClock + 1 : Iso(t) = s
    THEN CHOOSE t \in 0 .. MaxClock + 1 : Iso(t) = s
    ELSE -1

SortTime(rec) ==
    ParseIso(IF rec.lastModifiedTime # "" THEN rec.lastModifiedTime ELSE rec.createdTime)

\* Stable insertion of rec into a sequence sorted by SortTime, descending.
RECURSIVE InsertSorted(_, _)
InsertSorted(sorted, rec) ==
    IF Len(sorted) = 0 THEN <<rec>>
    ELSE IF SortTime(sorted[Len(sorted)]) >= SortTime(rec) THEN Append(sorted, rec)
    ELSE Append(InsertSorted(SubSeq(sorted, 1, Len(sorted) - 1), rec), sorted[Len(sorted)])

RECURSIVE SortLogs(_)
SortLogs(recs) ==
    IF Len(recs) = 0 THEN <<>>
    ELSE InsertSorted(SortLogs(SubSeq(recs, 1, Len(recs) - 1)), recs[Len(recs)])

\* The records of one sheet, blank rows skipped.
RECURSIVE SheetRecords(_, _, _)
SheetRecords(eventType, rows, k) ==
    IF k > Len(rows) THEN <<>>
    ELSE (IF Len(rows[k]) = 0 THEN <<>> ELSE <<RowToRecord(eventType, rows[k], k + 1)>>)
         \o SheetRecords(eventType, rows, k + 1)

\* A full scan: all the sheets, by last-modified time, newest first.
ScanEventLogs(sh) ==
    SortLogs(SheetRecords("general", sh["EVENT_LOGS_GENERAL"], 1)
             \o SheetRecords("iot", sh["EVENT_LOGS_IOT"], 1)
             \o SheetRecords("dt", sh["EVENT_LOGS_DT"], 1)
             \o SheetRecords("dx", sh["EVENT_LOGS_DX"], 1))

NoCache == [valid |-> FALSE, logs |-> <<>>]

\* getEventLogs: the cached list, or a scan that fills the cache.
GetEventLogs == IF cache.valid THEN cache.logs ELSE ScanEventLogs(sheets)

\* logs.find(pred): the first match, as a sequence of at most one record.
RECURSIVE FindFirst(_, _, _)
FindFirst(logs, key, value) ==
    IF Len(logs) = 0 THEN <<>>
    ELSE IF logs[1][key] = value THEN <<logs[1]>>
    ELSE FindFirst(Tail(logs), key, value)

\* ---------------------------------------------------------------- calls
NoArg == IntArg(0)
NoResult == [success |-> FALSE, id |-> "", moved |-> FALSE]

\* A call of the service by one caller: where it stands (pc), its entry
\* point (op), its arguments and locals, the store mutations it has issued
\* (calls), and what it returned (result) or threw (err); addressed is the
\* record the caller had before it when it chose the arguments.
IdleProc ==
    [pc |-> "idle", op |-> "none", arg |-> NoArg, data |-> NoData, modifier |-> "",
     now |-> "", eventId |-> "", sheet |-> "", rowIndex |-> 0, row |-> <<>>,
     logs |-> <<>>, original |-> <<>>, result |-> NoResult, err |-> "", calls |-> <<>>,
     currentRow |-> <<>>, addressed |-> <<>>]

\* A call throws: the payload and the row it built are gone; the error, what
\* it had resolved and what it issued remain.
Fail(pr, error) ==
    [pr EXCEPT !.pc = "failed", !.err = error, !.data = NoData, !.row = <<>>,
               !.now = "", !.eventId = "", !.currentRow = <<>>]

Mutation(kind, sheetName, n) == [op |-> kind, sheet |-> sheetName, row |-> n]

\* ---------------------------------------------------------------- inputs
Users == {"amy"}
CallerTime == Iso(0)
UnknownId == "EVTx"

InputTypes == {"general", "iot"}

CreatePayloads ==
    {[NoData EXCEPT !.eventType = t, !.eventName = "a"] : t \in InputTypes}

UpdatePayloads ==
    {[NoData EXCEPT !.eventType = t, !.eventName = nm, !.iot_deviceScale = ds] :
        t \in InputTypes \cup {Undef}, nm \in {Undef, "b"}, ds \in {Undef, "y"}}

KnownIds == {EventIdAt(0), EventIdAt(1)}

\* Payloads of updateEventLog: the record is named by eventId, by id or not at
\* all; a payload that names none may carry a createdTime of its own.
ServicePayloads ==
    {[NoData EXCEPT !.eventType = t, !.eventId = ids[1], !.id = ids[2]] :
        t \in InputTypes \cup {Undef},
        ids \in {<<Undef, Undef>>, <<UnknownId, Undef>>}
                \cup {<<e, Undef>> : e \in KnownIds} \cup {<<Undef, EventIdAt(0)>>}}
    \cup {[NoData EXCEPT !.eventType = t, !.createdTime = CallerTime] :
              t \in InputTypes \cup {Undef}}

RowArgs ==
    {IntArg(1), IntArg(2), IntArg(3)}
    \cup {FracArg(2), StrArg(2, ""), StrArg(2, "abc"), StrArg(-1, "abc")}

IdArgs == {StrArg(-1, e) : e \in KnownIds}

\* ------------------------------------------------- EventLogWriter, entered
\* createEventLog up to the append it issues.
WriterCreateEnter(pr, data, creator) ==
    LET sheetName == _getSheetNameByType(data.eventType)
    IN  [pr EXCEPT !.pc = "cr_append", !.now = Iso(clock),
                   !.eventId = EventIdAt(clock), !.sheet = sheetName,
                   !.row = CreateRowData(data, creator, clock),
                   !.calls = Append(@, Mutation("append", sheetName, 0))]

\* The check on the row read: nothing came back.
RowMissingNever(currentRow) == FALSE
RowMissing(currentRow) == Len(currentRow) = 0

\* updateEventLog up to the update it issues: the guard, the read of the
\* current row (getOk: the store answers), the row to write back.
WriterUpdateEnter(pr, rowIndex, data, getOk) ==
    IF InvalidRowIndex(rowIndex) THEN Fail(pr, "InvalidArgument")
    ELSE LET sheetName == _getSheetNameByType(data.eventType)
             headers == _getFieldsByType(data.eventType)
             currentRow == StoreGet(sheets, sheetName, rowIndex.n, Len(headers))
             addressed == [pr EXCEPT !.sheet = sheetName, !.rowIndex = rowIndex.n]
         IN  IF ~getOk \/ ~ValidRange(rowIndex) THEN Fail(addressed, "StoreFailure")
             ELSE IF RowMissing(currentRow) THEN Fail(addressed, "NotFound")
             ELSE [addressed EXCEPT !.pc = "up_write", !.data = data, !.now = Iso(clock),
                             !.currentRow = currentRow,
                             !.row = UpdateRowData(currentRow, data, Iso(clock)),
                             !.calls = Append(@, Mutation("update", sheetName, rowIndex.n))]

\* deleteEventLog up to the row removal it issues.
WriterDeleteEnterChecked(pr, n, eventType) ==
    LET sheetName == _getSheetNameByType(eventType)
    IN  IF StoreGet(sheets, sheetName, n, Len(_getFieldsByType(eventType))) = <<>>
        THEN Fail([pr EXCEPT !.sheet = sheetName, !.rowIndex = n], "NotFound")
        ELSE [pr EXCEPT !.pc = "dl_delete", !.sheet = sheetName, !.rowIndex = n,
                        !.calls = Append(@, Mutation("delete", sheetName, n))]
WriterDeleteEnter(pr, n, eventType) ==
    LET sheetName == _getSheetNameByType(eventType)
    IN  [pr EXCEPT !.pc = "dl_delete", !.sheet = sheetName, !.rowIndex = n,
                   !.calls = Append(@, Mutation("delete", sheetName, n))]

\* ------------------------------------------- EventLogService.updateEventLog
InputEventId(data) ==
    IF Truthy(data.eventId) THEN data.eventId
    ELSE IF Truthy(data.id) THEN data.id ELSE Undef

\* Steps 2a and 2b: the original record, by eventId first, by rowIndex next.
ResolveOriginalByRowFirst(logs, idOrRowIndex, data) ==
    LET candidateRow == ToNumber(idOrRowIndex)
        byRow == IF IsInteger(candidateRow)
                 THEN FindFirst(logs, "rowIndex", candidateRow.n) ELSE <<>>
    IN  IF Len(byRow) > 0 THEN byRow
        ELSE IF Truthy(InputEventId(data))
        THEN FindFirst(logs, "eventId", InputEventId(data)) ELSE <<>>
ResolveOriginal(logs, idOrRowIndex, data) ==
    LET byId == IF Truthy(InputEventId(data))
                THEN FindFirst(logs, "eventId", InputEventId(data)) ELSE <<>>
        candidateRow == ToNumber(idOrRowIndex)
    IN  IF Len(byId) > 0 THEN byId
        ELSE IF IsInteger(candidateRow) THEN FindFirst(logs, "rowIndex", candidateRow.n)
        ELSE <<>>

\* Step 4: the event type changes.
IsMove(original, data) ==
    /\ Len(original) > 0
    /\ Truthy(data.eventType)
    /\ Truthy(original[1].eventType)
    /\ data.eventType # original[1].eventType

\* The payload the move creates the new row from.
MovePayload(data, original) ==
    [data EXCEPT !.eventId = original.eventId,
                 !.id = original.eventId,
                 !.createdTime = IF ~Truthy(@) /\ Truthy(original.createdTime)
                                 THEN original.createdTime ELSE @]

\* Step 4 (A): the row the move deletes, by the original record's rowIndex
\* and eventType.
MoveDeleteArgsByInput(original, rowIndex, data) ==
    [rowIndex |-> rowIndex, eventType |-> data.eventType]
MoveDeleteArgs(original, rowIndex, data) ==
    [rowIndex |-> original.rowIndex, eventType |-> original.eventType]

\* Step 3: the record an identifier that is no number names.
FindTargetAny(logs, idOrRowIndex) == IF Len(logs) > 0 THEN <<logs[1]>> ELSE <<>>
FindTarget(logs, idOrRowIndex) == FindFirst(logs, "eventId", TextOf(idOrRowIndex))

\* updateEventLog from its entry to the first mutation it issues.
ServiceUpdateEnter(pr, idOrRowIndex, data, getOk) ==
    LET logs == GetEventLogs
        original == ResolveOriginal(logs, idOrRowIndex, data)
        looksLikeId == idOrRowIndex.kind = "str" /\ ToNumber(idOrRowIndex).nan
        target == FindTarget(logs, idOrRowIndex)
        rowIndex == IF looksLikeId THEN Whole(target[1].rowIndex) ELSE ToNumber(idOrRowIndex)
        entered == [pr EXCEPT !.logs = logs, !.original = original, !.data = data]
    IN  IF looksLikeId /\ Len(target) = 0 THEN Fail(entered, "EventIdNotFound")
        ELSE IF ~IsInteger(rowIndex) THEN Fail(entered, "InvalidResolvedRowIndex")
        ELSE IF IsMove(original, data)
        THEN LET del == MoveDeleteArgs(original[1], rowIndex.n, data)
             IN  [WriterDeleteEnter(entered, del.rowIndex, del.eventType)
                    EXCEPT !.pc = "mv_delete"]
        ELSE WriterUpdateEnter(entered, IntArg(rowIndex.n), data, getOk)

\* ------------------------------------------------- the invalidation hook
\* The reader's invalidateCache as the writer and the service find it: it
\* works ("ok"), it throws ("throws"), or the reader has no such method
\* ("absent").
HookStates == {"ok", "throws", "absent"}

\* this.eventLogReader.invalidateCache('eventLogs') in the writer, called
\* outside any try block: it returns only when the hook works.
WriterInvalidateReturns == hook = "ok"

\* _invalidateEventCacheSafe: a throwing hook is swallowed, a missing one
\* is replaced by clearing the reader's whole cache.
_invalidateEventCacheSafe(c) ==
    CASE hook = "ok" -> NoCache
      [] hook = "absent" -> NoCache
      [] OTHER -> c

\* The invalidation at the end of BaseWriter._deleteRow: best effort.
DeleteRowInvalidate(c) == IF hook = "ok" THEN NoCache ELSE c

\* --------------------------------------------------------------- actions
\* Nothing read through the join service yet; no listing taken yet.
NoReads ==
    [heap |-> <<>>, cached |-> <<>>, orig |-> <<>>, opps |-> <<>>, comps |-> <<>>,
     returned |-> <<>>]
NoListing ==
    [rows |-> <<>>, result |-> <<>>, cached |-> <<>>, taken |-> FALSE, fetched |-> FALSE]

Init ==
    /\ sheets = [n \in SheetNames |-> <<>>]
    /\ cache = NoCache
    /\ clock = 0
    /\ procs = [p \in Procs |-> IdleProc]
    /\ ncalls = 0
    /\ hook = "ok"
    /\ calendar = <<>>
    /\ reads = NoReads
    /\ listing = NoListing

\* The clock moves on between any two steps.
Tick ==
    /\ clock < MaxClock
    /\ clock' = clock + 1
    /\ UNCHANGED <<sheets, cache, procs, ncalls>>
    /\ UNCHANGED others

\* createEvent(data, user) is called with one of payloads.
StartCreateEventWith(p, payloads) ==
    /\ procs[p].pc = "idle"
    /\ ncalls < MaxCalls
    /\ ncalls' = ncalls + 1
    /\ \E data \in payloads, user \in Users :
          procs' = [procs EXCEPT ![p] =
                       WriterCreateEnter([IdleProc EXCEPT !.op = "createEvent",
                                                          !.data = data,
                                                          !.modifier = user],
                                         data, user)]
    /\ UNCHANGED <<sheets, cache, clock>>
    /\ UNCHANGED others

StartCreateEvent(p) == StartCreateEventWith(p, CreatePayloads)

\* updateEvent(rowIndex, data, user) is called.
StartUpdateEventWith(p, rows, payloads) ==
    /\ procs[p].pc = "idle"
    /\ ncalls < MaxCalls
    /\ ncalls' = ncalls + 1
    /\ \E rowIndex \in rows, data \in payloads, user \in Users, getOk \in BOOLEAN :
          LET pr == WriterUpdateEnter([IdleProc EXCEPT !.op = "updateEvent",
                                                       !.arg = rowIndex,
                                                       !.modifier = user],
                                      rowIndex, data, getOk)
          IN  procs' = [procs EXCEPT ![p] = pr]
    /\ UNCHANGED <<sheets, cache, clock>>
    /\ UNCHANGED others

StartUpdateEvent(p) == StartUpdateEventWith(p, RowArgs, UpdatePayloads)

\* updateEventLog(idOrRowIndex, data, modifier) is called.
StartUpdateEventLog(p) ==
    /\ procs[p].pc = "idle"
    /\ ncalls < MaxCalls
    /\ ncalls' = ncalls + 1
    /\ \E idOrRowIndex \in RowArgs \cup IdArgs, data \in ServicePayloads,
          modifier \in Users, getOk \in BOOLEAN :
          LET pr == ServiceUpdateEnter([IdleProc EXCEPT !.op = "updateEventLog",
                                                        !.arg = idOrRowIndex,
                                                        !.modifier = modifier],
                                       idOrRowIndex, data, getOk)
          IN  procs' = [procs EXCEPT ![p] = pr]
    /\ cache' = [valid |-> TRUE, logs |-> GetEventLogs]
    /\ UNCHANGED <<sheets, clock>>
    /\ UNCHANGED others

\* deleteEvent(rowIndex, eventType, user) is called.
StartDeleteEvent(p) ==
    /\ procs[p].pc = "idle"
    /\ ncalls < MaxCalls
    /\ ncalls' = ncalls + 1
    /\ \E n \in {2, 3}, eventType \in InputTypes :
          procs' = [procs EXCEPT ![p] =
                       WriterDeleteEnter([IdleProc EXCEPT !.op = "deleteEvent",
                                                          !.arg = IntArg(n)],
                                         n, eventType)]
    /\ UNCHANGED <<sheets, cache, clock>>
    /\ UNCHANGED others

\* The append is rejected: createEventLog throws, and the catch blocks of
\* createEvent and of the move log the error and throw it on.
CreateFailedRetry(pr) ==
    [pr EXCEPT !.calls = Append(@, Mutation("append", pr.sheet, 0))]
CreateFailed(pr) == Fail(pr, "StoreFailure")

\* The store answers the append of createEventLog.
AppendRow(p) ==
    /\ procs[p].pc = "cr_append"
    /\ \/ /\ sheets' = StoreAppend(sheets, procs[p].sheet, procs[p].row)
          /\ procs' = [procs EXCEPT ![p].pc = "cr_appended"]
       \/ /\ procs' = [procs EXCEPT ![p] = CreateFailed(@)]
          /\ UNCHANGED sheets
    /\ UNCHANGED <<cache, clock, ncalls>>
    /\ UNCHANGED others

\* createEvent goes on to the calendar: the create was its own call and the
\* payload asks for it.
SyncsToCalendar(pr) == pr.op = "createEvent" /\ pr.data.syncToCalendar = "true"

\* new Date(v).toISOString() of a createdTime the caller gave: the time, or
\* a RangeError for a value that is no date.
ValidTime(v) == \E t \in 0 .. MaxClock : v = Iso(t)

\* The calendar payload createEvent builds at clock reading t.
CalendarEvent(data, t) ==
    [summary |-> "[" \o data.eventType \o "] " \o data.eventName,
     description |-> IF Truthy(data.eventContent) THEN data.eventContent ELSE "",
     start |-> IF Truthy(data.createdTime) THEN data.createdTime ELSE Iso(t),
     end |-> Iso(t) \o "+1h"]

\* The catch block around the calendar sync: warn, go on.
CalendarFailedThrows(pr) == Fail(pr, "CalendarFailure")
CalendarFailed(pr) == [pr EXCEPT !.pc = "done"]

\* createEvent syncs to the calendar and returns the result of the create:
\* the payload is built (a createdTime that is no date throws), the
\* calendar service takes it or refuses it.
CalendarSync(p) ==
    /\ procs[p].pc = "cal_sync"
    /\ \/ /\ Truthy(procs[p].data.createdTime) => ValidTime(procs[p].data.createdTime)
          /\ calendar' = Append(calendar, CalendarEvent(procs[p].data, clock))
          /\ procs' = [procs EXCEPT ![p].pc = "done"]
       \/ /\ procs' = [procs EXCEPT ![p] = CalendarFailed(@)]
          /\ UNCHANGED calendar
    /\ UNCHANGED <<sheets, cache, clock, ncalls, hook, reads, listing>>

\* createEventLog invalidates the cache and returns {success, id};
\* createEvent or the move invalidates again and returns.  A hook that does
\* not return makes createEventLog throw after its append.
CreateReturnKeepingCache(p) ==
    /\ procs[p].pc = "cr_appended"
    /\ procs' = [procs EXCEPT ![p].pc = "done",
                              ![p].result = [success |-> TRUE, id |-> procs[p].eventId,
                                             moved |-> procs[p].op = "updateEventLog"]]
    /\ UNCHANGED <<sheets, cache, clock, ncalls>>
    /\ UNCHANGED others
CreateReturn(p) ==
    /\ procs[p].pc = "cr_appended"
    /\ IF WriterInvalidateReturns
       THEN /\ cache' = _invalidateEventCacheSafe(NoCache)
            /\ procs' = [procs EXCEPT ![p].pc = IF SyncsToCalendar(procs[p])
                                                THEN "cal_sync" ELSE "done",
                              ![p].result = [success |-> TRUE, id |-> procs[p].eventId,
                                             moved |-> procs[p].op = "updateEventLog"]]
       ELSE /\ cache' = cache
            /\ procs' = [procs EXCEPT ![p] = Fail(@, "InvalidateFailure")]
    /\ UNCHANGED <<sheets, clock, ncalls>>
    /\ UNCHANGED others

\* The row updateEventLog hands to values.update: the copy it read on entry,
\* with its changes.
WrittenRowReadAgain(pr) ==
    UpdateRowData(StoreGet(sheets, pr.sheet, pr.rowIndex, Len(pr.row)), pr.data, pr.now)
WrittenRow(pr) == pr.row

\* The store answers the update of updateEventLog.
WriteRow(p) ==
    /\ procs[p].pc = "up_write"
    /\ \/ /\ sheets' = StoreUpdate(sheets, procs[p].sheet, procs[p].rowIndex,
                                  WrittenRow(procs[p]))
          /\ procs' = [procs EXCEPT ![p].pc = "up_written"]
       \/ /\ procs' = [procs EXCEPT ![p] = Fail(@, "StoreFailure")]
          /\ UNCHANGED sheets
    /\ UNCHANGED <<cache, clock, ncalls>>
    /\ UNCHANGED others

\* updateEventLog returns {success}; updateEvent returns it.
UpdateReturn(p) ==
    /\ procs[p].pc = "up_written"
    /\ IF WriterInvalidateReturns
       THEN /\ cache' = _invalidateEventCacheSafe(NoCache)
            /\ procs' = [procs EXCEPT ![p].pc = "done",
                              ![p].result = [success |-> TRUE, id |-> "", moved |-> FALSE]]
       ELSE /\ cache' = cache
            /\ procs' = [procs EXCEPT ![p] = Fail(@, "InvalidateFailure")]
    /\ UNCHANGED <<sheets, clock, ncalls>>
    /\ UNCHANGED others

\* The store answers the row removal of deleteEventLog.
DeleteRow(p) ==
    /\ procs[p].pc \in {"dl_delete", "mv_delete"}
    /\ \/ /\ sheets' = StoreDelete(sheets, procs[p].sheet, procs[p].rowIndex)
          /\ procs' = [procs EXCEPT ![p].pc =
                          IF @ = "mv_delete" THEN "mv_deleted" ELSE "dl_deleted"]
       \/ /\ procs' = [procs EXCEPT ![p] = Fail(@, "StoreFailure")]
          /\ UNCHANGED sheets
    /\ UNCHANGED <<cache, clock, ncalls>>
    /\ UNCHANGED others

\* deleteEventLog returns {success}: deleteEvent returns it, a move goes on
\* to create the new row.
DeleteReturn(p) ==
    /\ procs[p].pc \in {"dl_deleted", "mv_deleted"}
    /\ cache' = IF procs[p].pc = "mv_deleted" THEN DeleteRowInvalidate(cache)
                ELSE _invalidateEventCacheSafe(DeleteRowInvalidate(cache))
    /\ procs' = [procs EXCEPT ![p] =
                    IF @.pc = "mv_deleted"
                    THEN WriterCreateEnter(@, MovePayload(@.data, @.original[1]), @.modifier)
                    ELSE [@ EXCEPT !.pc = "done",
                                   !.result = [success |-> TRUE, id |-> "", moved |-> FALSE]]]
    /\ UNCHANGED <<sheets, clock, ncalls>>
    /\ UNCHANGED others

\* The caller takes the result or the error.
Return(p) ==
    /\ procs[p].pc \in {"done", "failed"}
    /\ procs' = [procs EXCEPT ![p] = IdleProc]
    /\ UNCHANGED <<sheets, cache, clock, ncalls>>
    /\ UNCHANGED others

\* One caller, one call at a time.
Next ==
    \/ Tick
    \/ \E p \in Callers :
          \/ StartCreateEvent(p)
          \/ StartUpdateEvent(p)
          \/ StartUpdateEventLog(p)
          \/ StartDeleteEvent(p)
          \/ AppendRow(p)
          \/ CreateReturn(p)
          \/ WriteRow(p)
          \/ UpdateReturn(p)
          \/ DeleteRow(p)
          \/ DeleteReturn(p)
          \/ Return(p)

Spec == Init /\ [][Next]_vars

\* Creates that may ask for the calendar sync.
SyncPayloads ==
    {[NoData EXCEPT !.eventType = "general", !.eventName = "a",
                    !.syncToCalendar = sync, !.createdTime = ct] :
        sync \in {Undef, "true", "false"}, ct \in {Undef, CallerTime, "bad"}}

StartCreateEventSync(p) == StartCreateEventWith(p, SyncPayloads)

NextCalendar ==
    \/ Tick
    \/ \E p \in Callers :
          \/ StartCreateEventSync(p)
          \/ AppendRow(p)
          \/ CreateReturn(p)
          \/ CalendarSync(p)
          \/ Return(p)

SpecCalendar == Init /\ [][NextCalendar]_vars

\* Two callers update the rows of a table one create has filled; nothing
\* orders the steps of one call against the steps of the other.
ConcurrentPayloads ==
    {[NoData EXCEPT !.eventType = "general", !.eventName = nm, !.creator = cr] :
        nm \in {Undef, "b"}, cr \in {Undef, "bob"}}

ConcurrentRows == {IntArg(2), IntArg(3)}

InitConcurrent ==
    /\ sheets = StoreAppend([n \in SheetNames |-> <<>>], _getSheetNameByType("general"),
                            CreateRowData([NoData EXCEPT !.eventType = "general",
                                                         !.eventName = "a"], "amy", 0))
    /\ cache = NoCache
    /\ clock = 0
    /\ procs = [p \in Procs |-> IdleProc]
    /\ ncalls = 1
    /\ hook = "ok"
    /\ calendar = <<>>
    /\ reads = NoReads
    /\ listing = NoListing

StartUpdateEventConcurrent(p) ==
    StartUpdateEventWith(p, ConcurrentRows, ConcurrentPayloads)

NextConcurrent ==
    \/ Tick
    \/ \E p \in Procs :
          \/ StartUpdateEventConcurrent(p)
          \/ WriteRow(p)
          \/ UpdateReturn(p)
          \/ Return(p)

SpecConcurrent == InitConcurrent /\ [][NextConcurrent]_vars

\* Updates of a row the table already holds: a row written under an older,
\* narrower schema (a prefix of a full row; the store keeps no trailing empty
\* cells), or a full row whose revision cell holds any text.
RevisionCells == {"-1", "0", "1", "2", "abc"}

StoredRows ==
    LET full == CreateRowData([NoData EXCEPT !.eventType = "general", !.eventName = "a"],
                              "amy", 0)
        width == Len(full)
    IN  {SubSeq(full, 1, k) : k \in 1 .. width - 1}
        \cup {[full EXCEPT ![width] = rev] : rev \in RevisionCells}

InitStored ==
    /\ \E type \in InputTypes, row \in StoredRows :
          sheets = StoreAppend([n \in SheetNames |-> <<>>], _getSheetNameByType(type), row)
    /\ cache = NoCache
    /\ clock = 0
    /\ procs = [p \in Procs |-> IdleProc]
    /\ ncalls = 0
    /\ hook = "ok"
    /\ calendar = <<>>
    /\ reads = NoReads
    /\ listing = NoListing

StartUpdateEventStored(p) == StartUpdateEventWith(p, {IntArg(2)}, UpdatePayloads)

NextStored ==
    \/ Tick
    \/ \E p \in Callers :
          \/ StartUpdateEventStored(p)
          \/ WriteRow(p)
          \/ UpdateReturn(p)
          \/ Return(p)

SpecStored == InitStored /\ [][NextStored]_vars

\* A caller changes the type of a record it was shown: it passes the
\* record's rowIndex and a payload that carries the new type and no eventId.
\* Two tables hold a record each, at the same rowIndex.
MoveTypes == {"general", "iot", "dt"}

RowCreatedAt(type, t) ==
    CreateRowData([NoData EXCEPT !.eventType = type, !.eventName = "a"], "amy", t)

InitAddressed ==
    /\ \E t1, t2 \in 0 .. MaxClock :
          /\ t1 # t2
          /\ sheets = StoreAppend(StoreAppend([n \in SheetNames |-> <<>>],
                                               _getSheetNameByType("general"),
                                               RowCreatedAt("general", t1)),
                                  _getSheetNameByType("dt"), RowCreatedAt("dt", t2))
    /\ cache = NoCache
    /\ clock = MaxClock
    /\ procs = [p \in Procs |-> IdleProc]
    /\ ncalls = 2
    /\ hook = "ok"
    /\ calendar = <<>>
    /\ reads = NoReads
    /\ listing = NoListing

StartUpdateEventLogAddressed(p) ==
    /\ procs[p].pc = "idle"
    /\ ncalls < MaxCalls + 2
    /\ ncalls' = ncalls + 1
    /\ \E i \in 1 .. Len(GetEventLogs), type \in MoveTypes, getOk \in BOOLEAN :
          LET shown == GetEventLogs[i]
              data == [NoData EXCEPT !.eventType = type]
              pr == ServiceUpdateEnter([IdleProc EXCEPT !.op = "updateEventLog",
                                                        !.arg = IntArg(shown.rowIndex),
                                                        !.modifier = "amy",
                                                        !.addressed = <<shown>>],
                                       IntArg(shown.rowIndex), data, getOk)
          IN  /\ type # shown.eventType
              /\ procs' = [procs EXCEPT ![p] = pr]
    /\ cache' = [valid |-> TRUE, logs |-> GetEventLogs]
    /\ UNCHANGED <<sheets, clock>>
    /\ UNCHANGED others

NextAddressed ==
    \E p \in Callers :
        \/ StartUpdateEventLogAddressed(p)
        \/ DeleteRow(p)
        \/ DeleteReturn(p)
        \/ AppendRow(p)
        \/ CreateReturn(p)
        \/ WriteRow(p)
        \/ UpdateReturn(p)
        \/ Return(p)

SpecAddressed == InitAddressed /\ [][NextAddressed]_vars

\* The same calls over a reader whose invalidation hook may be broken.
InitHook ==
    /\ sheets = [n \in SheetNames |-> <<>>]
    /\ cache = NoCache
    /\ clock = 0
    /\ procs = [p \in Procs |-> IdleProc]
    /\ ncalls = 0
    /\ hook \in HookStates
    /\ calendar = <<>>
    /\ reads = NoReads
    /\ listing = NoListing

SpecHook == InitHook /\ [][Next]_vars

\* ------------------------------------------- the join service (reads)
\* A record object as the reader caches it and as the service hands it out;
\* a key the object does not have holds Undef.
RawEvent(eventId, opportunityId, companyId) ==
    [eventId |-> eventId, id |-> Undef, opportunityId |-> opportunityId,
     companyId |-> companyId, opportunityName |-> Undef, companyName |-> Undef]

\* An entry of a collaborator's list: an opportunity or a company.
Entry(id, name) == [id |-> id, name |-> name]

Max(S) == CHOOSE x \in S : \A y \in S : y <= x

\* new Map(list.map(x => [x.id, x.name])).get(k): the last entry wins.
MapGet(entries, k) ==
    LET at == {i \in 1 .. Len(entries) : entries[i].id = k}
    IN  IF at = {} THEN Undef ELSE entries[Max(at)].name

\* a || b
Or(a, b) == IF Truthy(a) THEN a ELSE b

\* if (!e.id && e.eventId) e.id = e.eventId
AliasId(e) == IF ~Truthy(e.id) /\ Truthy(e.eventId) THEN [e EXCEPT !.id = e.eventId] ELSE e

\* The two display fields, for the references that are set.
JoinNamesNoFallback(e, opps, comps) ==
    LET withOpp == IF Truthy(e.opportunityId)
                   THEN [e EXCEPT !.opportunityName = MapGet(opps, e.opportunityId)]
                   ELSE e
    IN  IF Truthy(withOpp.companyId)
        THEN [withOpp EXCEPT !.companyName = MapGet(comps, withOpp.companyId)]
        ELSE withOpp
JoinNames(e, opps, comps) ==
    LET withOpp == IF Truthy(e.opportunityId)
                   THEN [e EXCEPT !.opportunityName =
                                     Or(MapGet(opps, e.opportunityId), e.opportunityId)]
                   ELSE e
    IN  IF Truthy(withOpp.companyId)
        THEN [withOpp EXCEPT !.companyName =
                                Or(MapGet(comps, withOpp.companyId), withOpp.companyId)]
        ELSE withOpp

\* { ...raw }: a new object with the fields of the object at ref.
CloneAliasing(heap, ref) == [heap |-> heap, ref |-> ref]
Clone(heap, ref) == [heap |-> Append(heap, heap[ref]), ref |-> Len(heap) + 1]

\* events.map(raw => { clone; alias; join; return e }) over the objects at
\* refs, from the k-th on.
RECURSIVE MapEvents(_, _, _, _, _)
MapEvents(heap, refs, k, opps, comps) ==
    IF k > Len(refs) THEN [heap |-> heap, refs |-> <<>>]
    ELSE LET c == Clone(heap, refs[k])
             e == JoinNames(AliasId(c.heap[c.ref]), opps, comps)
             rest == MapEvents([c.heap EXCEPT ![c.ref] = e], refs, k + 1, opps, comps)
         IN  [heap |-> rest.heap, refs |-> <<c.ref>> \o rest.refs]

\* OpportunityReader.getOpportunities seen from the service: the list, or
\* the empty list when the read of the sheet fails.
OpportunitiesFetched(storeOk) == IF storeOk THEN reads.opps ELSE <<>>

\* The cached object whose eventId is eventId, as a sequence of at most one ref.
RECURSIVE CachedById(_, _, _)
CachedById(heap, refs, eventId) ==
    IF Len(refs) = 0 THEN <<>>
    ELSE IF heap[refs[1]].eventId = eventId THEN <<refs[1]>>
    ELSE CachedById(heap, Tail(refs), eventId)

\* What a call handed to its caller (kind "list", "record", "null"), or
\* that it threw (kind "thrown"); the fetches it made and how they went.
Result(op, arg, kind, refs, evOk, oppOk, compOk) ==
    [op |-> op, arg |-> arg, kind |-> kind, refs |-> refs,
     events |-> evOk, oppStore |-> oppOk, companies |-> compOk,
     opps |-> OpportunitiesFetched(oppOk)]

\* The catch block of getAllEvents: log, return [].
CatchAllRethrows(r) == r
CatchAll(r) == IF r.kind = "thrown" THEN [r EXCEPT !.kind = "list", !.refs = <<>>] ELSE r

\* The outer catch block of getEventById: log, return null.
CatchById(r) == IF r.kind = "thrown" THEN [r EXCEPT !.kind = "null", !.refs = <<>>] ELSE r

\* What the reader caches and what the collaborators list.
CachedEventSets ==
    {<<RawEvent("EVT0", "O1", "C1")>>,
     <<RawEvent("EVT0", "O1", ""), RawEvent("EVT1", "O9", "C1")>>,
     <<RawEvent("EVT0", "", "C9")>>}

OppLists ==
    {<<>>, <<Entry("O1", "n1")>>, <<Entry("O1", "")>>,
     <<Entry("O1", "n1"), Entry("O1", "n2")>>}

CompLists == {<<>>, <<Entry("C1", "c1")>>}

ReadIds == {"EVT0", UnknownId}

InitRead ==
    /\ sheets = [n \in SheetNames |-> <<>>]
    /\ cache = NoCache
    /\ clock = 0
    /\ procs = [p \in Procs |-> IdleProc]
    /\ ncalls = 0
    /\ hook = "ok"
    /\ calendar = <<>>
    /\ \E events \in CachedEventSets, opps \in OppLists, comps \in CompLists :
          reads = [heap |-> events, cached |-> [i \in 1 .. Len(events) |-> i],
                   orig |-> events, opps |-> opps, comps |-> comps, returned |-> <<>>]
    /\ listing = NoListing

\* getAllEvents(): the three fetches (the event list and the company list
\* may be refused, the opportunity list comes back empty instead), the
\* clone and join of every record, the catch block.
GetAllEvents ==
    /\ ncalls < MaxCalls
    /\ ncalls' = ncalls + 1
    /\ \E evOk \in BOOLEAN, oppOk \in BOOLEAN, compOk \in BOOLEAN :
          \* a refused event list decides the call: the other two do not matter
          /\ ~evOk => oppOk /\ compOk
          /\ LET m == MapEvents(reads.heap, reads.cached, 1,
                                OpportunitiesFetched(oppOk), reads.comps)
                 tried == IF evOk /\ compOk
                          THEN [heap |-> m.heap,
                                r |-> Result("getAllEvents", "", "list", m.refs, evOk, oppOk, compOk)]
                          ELSE [heap |-> reads.heap,
                                r |-> Result("getAllEvents", "", "thrown", <<>>, evOk, oppOk, compOk)]
             IN  reads' = [reads EXCEPT !.heap = tried.heap,
                                        !.returned = Append(@, CatchAll(tried.r))]
    /\ UNCHANGED <<sheets, cache, clock, procs, hook, calendar, listing>>

\* getEventById(eventId): the fetch of the record, its clone, the join
\* inside the inner try block, the outer catch block.
GetEventById ==
    /\ ncalls < MaxCalls
    /\ ncalls' = ncalls + 1
    /\ \E eventId \in ReadIds, evOk \in BOOLEAN, oppOk \in BOOLEAN, compOk \in BOOLEAN :
          \* without a record there is no join: its fetches do not matter
          /\ (~evOk \/ Len(CachedById(reads.heap, reads.cached, eventId)) = 0)
                => oppOk /\ compOk
          /\ LET rawEvent == CachedById(reads.heap, reads.cached, eventId)
                 c == Clone(reads.heap, rawEvent[1])
                 event == AliasId(c.heap[c.ref])
                 joined == IF compOk
                           THEN JoinNames(event, OpportunitiesFetched(oppOk), reads.comps)
                           ELSE event
                 tried == IF ~evOk
                          THEN [heap |-> reads.heap,
                                r |-> Result("getEventById", eventId, "thrown", <<>>, evOk, oppOk, compOk)]
                          ELSE IF Len(rawEvent) = 0
                          THEN [heap |-> reads.heap,
                                r |-> Result("getEventById", eventId, "null", <<>>, evOk, oppOk, compOk)]
                          ELSE [heap |-> [c.heap EXCEPT ![c.ref] = joined],
                                r |-> Result("getEventById", eventId, "record", <<c.ref>>,
                                             evOk, oppOk, compOk)]
             IN  reads' = [reads EXCEPT !.heap = tried.heap,
                                        !.returned = Append(@, CatchById(tried.r))]
    /\ UNCHANGED <<sheets, cache, clock, procs, hook, calendar, listing>>

NextRead == GetAllEvents \/ GetEventById

SpecRead == InitRead /\ [][NextRead]_vars

\* ------------------------------------------------------ OpportunityReader
\* The titles of the opportunity sheet the listing reads, and the archived
\* sentinel.
OPPORTUNITY_FIELD_NAMES ==
    [ID |-> "OpportunityID", STATUS |-> "Status", CREATED_TIME |-> "CreatedTime",
     LAST_UPDATE_TIME |-> "LastUpdateTime"]
ARCHIVED == "archived"

\* _buildHeaderMap: title -> position; a title that occurs twice maps to its
\* last position, an empty title to none.
_buildHeaderMap(headerRow) ==
    [title \in {headerRow[i] : i \in 1 .. Len(headerRow)} \ {""} |->
        Max({i \in 1 .. Len(headerRow) : headerRow[i] = title})]

\* _getValue: the cell under a title, '' when the title or the cell is missing.
_getValue(row, map, fieldName) ==
    IF fieldName \notin DOMAIN map THEN ""
    ELSE IF map[fieldName] > Len(row) THEN "" ELSE row[map[fieldName]]

\* The record built from row i of the sheet (rows[0] is the title row).
Opportunity(row, map, i) ==
    [rowIndex |-> i,
     opportunityId |-> _getValue(row, map, OPPORTUNITY_FIELD_NAMES.ID),
     currentStatus |-> _getValue(row, map, OPPORTUNITY_FIELD_NAMES.STATUS),
     createdTime |-> _getValue(row, map, OPPORTUNITY_FIELD_NAMES.CREATED_TIME),
     lastUpdateTime |-> _getValue(row, map, OPPORTUNITY_FIELD_NAMES.LAST_UPDATE_TIME)]

\* The test a record passes to be pushed.
IsListedAlways(opp) == TRUE
IsListed(opp) == opp.currentStatus # ARCHIVED

\* The loop over the data rows up to row i.
RECURSIVE ParseRows(_, _, _)
ParseRows(rows, map, i) ==
    IF i < 2 THEN <<>>
    ELSE LET before == ParseRows(rows, map, i - 1)
             row == rows[i]
             opp == Opportunity(row, map, i)
         IN  IF Len(row) = 0 THEN before
             ELSE IF IsListed(opp) THEN Append(before, opp) ELSE before

\* The comparator of the sort: new Date(timeB) - new Date(timeA).
OppTime(opp) == ParseIso(Or(opp.lastUpdateTime, opp.createdTime))
CompareOpps(a, b) == OppTime(b) - OppTime(a)

\* Array.prototype.sort with that comparator (a stable sort).
RECURSIVE InsertOpp(_, _)
InsertOpp(sorted, opp) ==
    IF Len(sorted) = 0 THEN <<opp>>
    ELSE IF CompareOpps(opp, sorted[Len(sorted)]) < 0
    THEN Append(InsertOpp(SubSeq(sorted, 1, Len(sorted) - 1), opp), sorted[Len(sorted)])
    ELSE Append(sorted, opp)

RECURSIVE SortOpps(_)
SortOpps(opps) ==
    IF Len(opps) = 0 THEN <<>>
    ELSE InsertOpp(SortOpps(SubSeq(opps, 1, Len(opps) - 1)), opps[Len(opps)])

\* getOpportunities over the rows the store returns.
OpportunitiesOf(rows) ==
    IF Len(rows) = 0 THEN <<>>
    ELSE SortOpps(ParseRows(rows, _buildHeaderMap(rows[1]), Len(rows)))

\* The sheets the listing is taken of: no rows at all, or the title row and
\* up to MaxRows data rows. A data row is blank or carries an id, a status
\* and a created time; the last-update cell may be missing. Every time
\* written is a date.
ListingTimes == {Iso(0), Iso(1)}
TitleRow ==
    <<OPPORTUNITY_FIELD_NAMES.ID, OPPORTUNITY_FIELD_NAMES.STATUS,
      OPPORTUNITY_FIELD_NAMES.CREATED_TIME, OPPORTUNITY_FIELD_NAMES.LAST_UPDATE_TIME>>
DataRows ==
    {<<>>}
    \cup {<<"OPP", st, ct>> : st \in {"open", ARCHIVED}, ct \in ListingTimes}
    \cup {<<"OPP", st, ct, ut>> : st \in {"open", ARCHIVED}, ct \in ListingTimes,
                                  ut \in ListingTimes}
OpportunitySheets ==
    {<<>>} \cup UNION {{<<TitleRow>> \o data : data \in [1 .. n -> DataRows]} :
                          n \in 0 .. MaxRows}

InitListing ==
    /\ sheets = [n \in SheetNames |-> <<>>]
    /\ cache = NoCache
    /\ clock = 0
    /\ procs = [p \in Procs |-> IdleProc]
    /\ ncalls = 0
    /\ hook = "ok"
    /\ calendar = <<>>
    /\ reads = NoReads
    /\ listing \in {[NoListing EXCEPT !.rows = rows] : rows \in OpportunitySheets}

\* getOpportunities: the store answers, the listing is built, cached and
\* returned.
GetOpportunities ==
    /\ ~listing.taken
    /\ listing' = [listing EXCEPT !.taken = TRUE, !.fetched = TRUE,
                                  !.result = OpportunitiesOf(listing.rows),
                                  !.cached = OpportunitiesOf(listing.rows)]
    /\ UNCHANGED <<sheets, cache, clock, procs, ncalls, hook, calendar, reads>>

\* getOpportunities: the store throws, the catch block returns [].
GetOpportunitiesFails ==
    /\ ~listing.taken
    /\ listing' = [listing EXCEPT !.taken = TRUE, !.result = <<>>]
    /\ UNCHANGED <<sheets, cache, clock, procs, ncalls, hook, calendar, reads>>

NextListing == GetOpportunities \/ GetOpportunitiesFails

SpecListing == InitListing /\ [][NextListing]_vars

\* ---------------------------------------------------- reading the state
Last(seq) == seq[Len(seq)]
Range(seq) == {seq[i] : i \in 1 .. Len(seq)}

\* The rows of all sheets whose EventID cell is id, as <<sheet, position>>.
RowsWithId(id) ==
    {<<n, i>> \in SheetNames \X (1 .. MaxCalls + 1) :
        i <= Len(sheets[n]) /\ Cell(sheets[n][i], "EventID") = id}

SheetsHolding(id) == {r[1] : r \in RowsWithId(id)}

StoredIds ==
    {Cell(sheets[n][i], "EventID") : <<n, i>> \in
        {<<n, i>> \in SheetNames \X (1 .. MaxCalls + 1) : i <= Len(sheets[n])}}

CountType(logs, eventType) ==
    Cardinality({i \in 1 .. Len(logs) : logs[i].eventType = eventType})

CountKind(calls, kind) ==
    Cardinality({i \in 1 .. Len(calls) : calls[i].op = kind})

\* The sheet of eventType holds what logs listed for it, the row at rowIndex
\* `removed` taken out (removed = 0: nothing taken out) and `added` rows
\* appended after them.
SheetIsLogsWithout(logs, eventType, removed, added) ==
    LET rows == sheets[_getSheetNameByType(eventType)]
        kept == Len(rows) - added
    IN  /\ kept = CountType(logs, eventType) - (IF removed > 0 THEN 1 ELSE 0)
        /\ \A i \in 1 .. kept :
              RowToRecord(eventType, rows[i],
                          IF removed > 0 /\ i + 1 >= removed THEN i + 2 ELSE i + 1)
                  \in Range(logs)

Moving(pr) == pr.op = "updateEventLog" /\ Len(pr.original) > 0 /\ CountKind(pr.calls, "delete") = 1
MoveDone(pr) == Moving(pr) /\ pr.pc = "done" /\ pr.result.moved

\* ----------------------------------------------------------------- claims

\* C1: after a successful type-change update the eventId stored in the new
\* row and the id returned to the caller both equal the original record's
\* eventId.
C1_EventIdPreserved ==
    \A p \in Procs :
        LET pr == procs[p]
        IN  MoveDone(pr) =>
                /\ pr.result.id = pr.original[1].eventId
                /\ Cell(Last(sheets[pr.sheet]), "EventID") = pr.original[1].eventId

\* C2: after a successful type-change update the created timestamp of the
\* new row is the original record's when the payload carries no createdTime,
\* and the payload's when it carries one.
C2_CreatedTimePreserved ==
    \A p \in Procs :
        LET pr == procs[p]
        IN  MoveDone(pr) =>
                Cell(Last(sheets[pr.sheet]), "CreatedTime") =
                    (IF Truthy(pr.data.createdTime) THEN pr.data.createdTime
                     ELSE pr.original[1].createdTime)

\* C3: a created row stores revision 1, an update writes the revision it
\* read plus one, and a move stores the original record's revision plus one.
C3_RevisionIncrements ==
    \A p \in Procs :
        LET pr == procs[p]
        IN  /\ (pr.op = "createEvent" /\ pr.pc = "done") =>
                  Cell(Last(sheets[pr.sheet]), "Revision") = "1"
            /\ pr.pc = "up_write" =>
                  ParseRev(Cell(pr.row, "Revision")).n =
                      ParseRev(Cell(sheets[pr.sheet][pr.rowIndex - 1], "Revision")).n + 1
            /\ MoveDone(pr) =>
                  ParseRev(Cell(Last(sheets[pr.sheet]), "Revision")).n =
                      ParseRev(pr.original[1].editCount).n + 1

\* C4: every eventId stored is stored in exactly one sheet, a record just
\* created is in exactly one sheet, and a record being moved is in exactly
\* one sheet at every point of the move and after it.
C4_ExactlyOneTable ==
    /\ \A id \in StoredIds : Cardinality(SheetsHolding(id)) = 1
    /\ \A p \in Procs :
          LET pr == procs[p]
          IN  /\ (pr.op = "createEvent" /\ pr.pc = "done") =>
                    Cardinality(SheetsHolding(pr.result.id)) = 1
              /\ (Moving(pr) /\ pr.pc # "failed") =>
                    Cardinality(SheetsHolding(pr.original[1].eventId)) = 1

C6_FailedMoveLosesRecord ==
    \A p \in Procs :
        LET pr == procs[p]
        IN  /\ \A kind \in {"append", "update", "delete"} : CountKind(pr.calls, kind) <= 1
            /\ (Moving(pr) /\ pr.pc = "failed" /\ Len(pr.calls) = 2) =>
                  /\ pr.err = "StoreFailure"
                  /\ \A t \in EventTypes :
                        SheetIsLogsWithout(pr.logs, t,
                            IF t = pr.original[1].eventType
                            THEN pr.original[1].rowIndex ELSE 0, 0)

C6_Witness ==
    \E p \in Procs :
        /\ Moving(procs[p]) /\ procs[p].pc = "failed" /\ Len(procs[p].calls) = 2
        /\ RowsWithId(procs[p].original[1].eventId) = {}

\* C7: the write of an update leaves every column whose key the payload
\* does not supply as it was, stores the previous revision plus one, and
\* stores the time the call took on entry as the last-modified time.
C7_PartialUpdate ==
    [][\A p \in Procs :
          (procs[p].pc = "up_write" /\ procs'[p].pc = "up_written") =>
              LET pr == procs[p]
                  headers == _getFieldsByType(pr.data.eventType)
                  old == sheets[pr.sheet][pr.rowIndex - 1]
                  new == sheets'[pr.sheet][pr.rowIndex - 1]
              IN  /\ Len(new) >= Len(headers)
                  /\ ParseIso(pr.now) >= 0 /\ ParseIso(pr.now) <= clock
                  /\ \A i \in 1 .. Len(headers) :
                        CASE headers[i] = "LastModifiedTime" -> new[i] = pr.now
                          [] headers[i] = "Revision" ->
                                ParseRev(new[i]).n = ParseRev(old[i]).n + 1
                          [] OTHER ->
                                Field(pr.data, KeyOfHeader(headers[i], pr.data.eventType)) = Undef
                                    => new[i] = (IF i <= Len(old) THEN old[i] ELSE "")]_vars

C7_Witness ==
    \E p \in Procs :
        LET pr == procs[p]
        IN  /\ pr.pc = "up_written"
            /\ pr.data.eventName = Undef
            /\ pr.data.iot_deviceScale = "y"
            /\ pr.sheet = "EVENT_LOGS_IOT"
            /\ sheets[pr.sheet][pr.rowIndex - 1] =
                   <<"EVT0", "a", "amy", "T0", "T1", "2", "y">>

\* A rowIndex that is not a positive integer greater than 1.
BadRowIndex(v) ==
    LET x == ToNumber(v)
    IN  x.nan \/ ~x.whole \/ x.n <= 1

UpdateOps == {"updateEvent", "updateEventLog"}

\* The identifier is the eventId of a record the reader lists: updateEventLog
\* takes it for the record's name and resolves the rowIndex from it.
NamesStoredEvent(v, logs) ==
    /\ v.kind = "str"
    /\ ToNumber(v).nan
    /\ \E l \in Range(logs) : l.eventId = TextOf(v)

\* C8: an update whose rowIndex is <= 1 or not a positive integer fails and
\* issues no write, delete or append, on the writer and through
\* updateEventLog alike, whatever eventId and eventType the payload carries.
C8_BadRowIndexAlwaysFails ==
    \A p \in Procs :
        LET pr == procs[p]
        IN  (/\ pr.op \in UpdateOps
             /\ BadRowIndex(pr.arg)
             /\ ~(pr.op = "updateEventLog" /\ NamesStoredEvent(pr.arg, pr.logs))) =>
                pr.pc = "failed" /\ pr.calls = <<>>

\* C9: an update that reports not-found has read nothing at the position it
\* addressed and has issued no write, and no update is issued for a position
\* where the sheet holds no row.
C9_NotFoundNoWrite ==
    \A p \in Procs :
        LET pr == procs[p]
            width == Len(_getFieldsByType(pr.data.eventType))
        IN  /\ pr.err = "NotFound" =>
                  /\ pr.pc = "failed"
                  /\ pr.calls = <<>>
                  /\ StoreGet(sheets, pr.sheet, pr.rowIndex, Len(EVENT_LOG_COMMON_FIELDS) + 1) = <<>>
            /\ pr.pc = "up_write" =>
                  StoreGet(sheets, pr.sheet, pr.rowIndex, width) # <<>>

C9_Witness ==
    \E p \in Procs :
        /\ procs[p].err = "NotFound"
        /\ procs[p].rowIndex = 3
        /\ Len(sheets[procs[p].sheet]) = 1

\* C10: the id a create returns is not empty and no other stored row carries
\* it, and the row the create appended stores revision "1".
C10_CreateIdsUnique ==
    \A p \in Procs :
        LET pr == procs[p]
        IN  (pr.op = "createEvent" /\ pr.pc = "done") =>
                /\ pr.result.id # ""
                /\ Cardinality(RowsWithId(pr.result.id)) = 1
                /\ Cell(Last(sheets[pr.sheet]), "Revision") = "1"

\* C11: a delete issues the row removal on entry, for a position that holds
\* a row and for one that holds none alike; it fails only when the store
\* rejects the removal, never for the row being absent, and otherwise
\* returns success, the first time and every time it is repeated.
C11_DeleteNoExistenceCheck ==
    \A p \in Procs :
        LET pr == procs[p]
        IN  pr.op = "deleteEvent" =>
              /\ pr.calls = <<Mutation("delete", pr.sheet, pr.arg.n)>>
              /\ pr.pc \in {"dl_delete", "dl_deleted", "done", "failed"}
              /\ pr.pc = "failed" => pr.err = "StoreFailure"
              /\ pr.pc # "failed" => pr.err = ""
              /\ pr.pc = "done" => pr.result.success

C11_Witness ==
    \E p \in Procs :
        /\ procs[p].op = "deleteEvent"
        /\ procs[p].pc = "done"
        /\ procs[p].result.success
        /\ procs[p].rowIndex = 3
        /\ Len(sheets[procs[p].sheet]) = 0

\* The quiet points of a call: before it, after it returned, after it threw.
Quiet(pr) == pr.pc \in {"idle", "done", "failed"}

\* C12: whenever no call is under way, a cache that is filled holds what a
\* scan of the sheets gives: every mutation a call completed, the delete of
\* a move whose create failed included, was followed by an invalidation
\* before the call returned or failed.
C12_MutationInvalidatesCache ==
    (\A p \in Procs : Quiet(procs[p])) =>
        (cache.valid => cache.logs = ScanEventLogs(sheets))

C12_Witness ==
    \E p \in Procs :
        /\ Moving(procs[p]) /\ procs[p].pc = "failed" /\ Len(procs[p].calls) = 2
        /\ Len(procs[p].logs) > 0
        /\ ~cache.valid

\* C13: once the store has applied the append, update or delete of a call,
\* the call does not fail, whatever the invalidation hook does.
C13_HookNeverFailsMutation ==
    [][\A p \in Procs :
          procs[p].pc \in {"cr_appended", "up_written", "dl_deleted", "mv_deleted"}
              => procs'[p].pc # "failed"]_vars

\* The records handed out so far: <<call, position in its result>>.
HandedOut ==
    {<<k, i>> \in (1 .. Len(reads.returned)) \X (1 .. Len(reads.cached)) :
        i <= Len(reads.returned[k].refs)}

RecordAt(h) == reads.heap[reads.returned[h[1]].refs[h[2]]]

\* shown is a name some entry with this id carries, or the raw id when no
\* entry carries the id.
NameOrRawId(entries, id, shown) ==
    IF \E i \in 1 .. Len(entries) : entries[i].id = id
    THEN \E i \in 1 .. Len(entries) : entries[i].id = id /\ shown = entries[i].name
    ELSE shown = id

\* C14 as claimed: every record handed out by getAllEvents or getEventById
\* with opportunityId (companyId) set shows the name of the collaborator's
\* entry with that id when there is one and the raw id when there is none;
\* with the reference unset it has no display field.
C14_DisplayNames ==
    \A h \in HandedOut :
        LET e == RecordAt(h)
        IN  /\ IF Truthy(e.opportunityId)
               THEN NameOrRawId(reads.opps, e.opportunityId, e.opportunityName)
               ELSE e.opportunityName = Undef
            /\ IF Truthy(e.companyId)
               THEN NameOrRawId(reads.comps, e.companyId, e.companyName)
               ELSE e.companyName = Undef

\* shown is the name of the last entry with this id when that name is not
\* empty, and the raw id otherwise.
LastNameOrRawId(entries, id, shown) ==
    LET last == {i \in 1 .. Len(entries) :
                    /\ entries[i].id = id
                    /\ \A j \in i + 1 .. Len(entries) : entries[j].id # id}
    IN  IF \E i \in last : entries[i].name # ""
        THEN \E i \in last : shown = entries[i].name
        ELSE shown = id

\* The call joined its records: getAllEvents always does when it returns
\* any, getEventById does when the company list was not refused.
Joined(r) == r.op = "getAllEvents" \/ r.companies

\* C14, amended: a record handed out by getAllEvents, or by getEventById
\* when its join fetches were not refused, with opportunityId (companyId)
\* set shows the name of the last entry with that id in the list the call
\* obtained when that name is not empty, and the raw id otherwise; with the
\* reference unset, and after a refused join fetch of getEventById, it has
\* no display field.
C14_DisplayNamesOfFetchedLists ==
    \A h \in HandedOut :
        LET e == RecordAt(h)
            r == reads.returned[h[1]]
        IN  IF Joined(r)
            THEN /\ IF Truthy(e.opportunityId)
                    THEN LastNameOrRawId(r.opps, e.opportunityId, e.opportunityName)
                    ELSE e.opportunityName = Undef
                 /\ IF Truthy(e.companyId)
                    THEN LastNameOrRawId(reads.comps, e.companyId, e.companyName)
                    ELSE e.companyName = Undef
            ELSE e.opportunityName = Undef /\ e.companyName = Undef

C14_Witness ==
    /\ reads.opps = <<Entry("O1", "n1"), Entry("O1", "n2")>>
    /\ \E h \in HandedOut :
          /\ reads.returned[h[1]].oppStore
          /\ RecordAt(h).opportunityName = "n2"
          /\ RecordAt(h).companyName = "C1"
    /\ \E h \in HandedOut :
          /\ ~Joined(reads.returned[h[1]])
          /\ RecordAt(h).opportunityId = "O1"
          /\ RecordAt(h).opportunityName = Undef

\* C15: the objects the reader caches are what they were before any read,
\* and every record handed out is an object of its own: none is a cached
\* object and no two results share one.
C15_CacheNeverEnriched ==
    /\ \A i \in 1 .. Len(reads.cached) : reads.heap[reads.cached[i]] = reads.orig[i]
    /\ \A h \in HandedOut :
          LET ref == reads.returned[h[1]].refs[h[2]]
          IN  /\ \A i \in 1 .. Len(reads.cached) : reads.cached[i] # ref
              /\ \A g \in HandedOut : g # h => reads.returned[g[1]].refs[g[2]] # ref

C15_Witness ==
    \E h \in HandedOut, g \in HandedOut :
        /\ h[1] < g[1]
        /\ reads.returned[h[1]].op = "getAllEvents"
        /\ reads.returned[g[1]].op = "getEventById"
        /\ RecordAt(h) = RecordAt(g)
        /\ RecordAt(h).opportunityName = "n1"
        /\ RecordAt(h).id = "EVT0"

Unenriched(e) == e.opportunityName = Undef /\ e.companyName = Undef

\* C16 as claimed: no read throws; getAllEvents returns the empty list when
\* the event, opportunity or company fetch fails; getEventById returns no
\* record when the event fetch fails and the un-enriched record when a join
\* fetch fails.
C16_ReadsNeverFailOutward ==
    \A k \in 1 .. Len(reads.returned) :
        LET r == reads.returned[k]
            joinFailed == ~r.oppStore \/ ~r.companies
        IN  /\ r.kind # "thrown"
            /\ (r.op = "getAllEvents" /\ (~r.events \/ joinFailed)) =>
                  r.kind = "list" /\ r.refs = <<>>
            /\ (r.op = "getEventById" /\ ~r.events) => r.kind = "null"
            /\ (r.op = "getEventById" /\ r.kind = "record" /\ joinFailed) =>
                  Unenriched(reads.heap[r.refs[1]])

\* C16, amended: no read throws; getAllEvents returns the empty list when
\* the event or company fetch is refused; a failed read of the opportunity
\* sheet reaches the service as an empty opportunity list, so the records
\* are still returned, with the raw opportunityId as display name;
\* getEventById returns no record when the event fetch is refused and the
\* un-enriched record when the company fetch is refused.
C16_ReadsDegrade ==
    \A k \in 1 .. Len(reads.returned) :
        LET r == reads.returned[k]
        IN  /\ r.kind # "thrown"
            /\ r.op = "getAllEvents" =>
                  /\ r.kind = "list"
                  /\ (~r.events \/ ~r.companies) => r.refs = <<>>
                  /\ (r.events /\ r.companies) => Len(r.refs) = Len(reads.cached)
            /\ (r.op = "getEventById" /\ ~r.events) => r.kind = "null"
            /\ (r.op = "getEventById" /\ r.kind = "record") =>
                  LET e == reads.heap[r.refs[1]]
                  IN  /\ ~r.companies => Unenriched(e)
                      /\ (r.companies /\ ~r.oppStore /\ Truthy(e.opportunityId)) =>
                            e.opportunityName = e.opportunityId
            /\ \A i \in 1 .. Len(r.refs) :
                  (Joined(r) /\ ~r.oppStore /\ Truthy(reads.heap[r.refs[i]].opportunityId)) =>
                      reads.heap[r.refs[i]].opportunityName = reads.heap[r.refs[i]].opportunityId

C16_Witness ==
    /\ reads.opps = <<Entry("O1", "n1")>>
    /\ \E k \in 1 .. Len(reads.returned) :
          LET r == reads.returned[k]
          IN  /\ r.op = "getAllEvents" /\ ~r.oppStore
              /\ Len(r.refs) = 2
              /\ reads.heap[r.refs[1]].opportunityName = "O1"
    /\ \E k \in 1 .. Len(reads.returned) :
          LET r == reads.returned[k]
          IN  r.op = "getAllEvents" /\ ~r.companies /\ r.refs = <<>>
    /\ \E k \in 1 .. Len(reads.returned) :
          LET r == reads.returned[k]
          IN  r.op = "getEventById" /\ ~r.events /\ r.kind = "null"

\* C17: the calendar gets a payload only from a createEvent whose payload
\* sets the sync flag and whose row is stored and acknowledged; whatever the
\* calendar does, the call then returns the success of the create and the
\* row stays.
C17_CalendarNeverFailsCreate ==
    [][\A p \in Procs :
          LET pr == procs[p]
          IN  /\ (calendar' # calendar /\ procs'[p] # pr) =>
                    /\ pr.pc = "cal_sync"
                    /\ pr.data.syncToCalendar = "true"
                    /\ pr.result.success
                    /\ Last(sheets[pr.sheet]) = pr.row
              /\ pr.pc = "cal_sync" =>
                    /\ procs'[p].pc \in {"cal_sync", "done"}
                    /\ procs'[p].result = pr.result
                    /\ pr.result.success /\ pr.result.id = pr.eventId
                    /\ sheets' = sheets
              /\ (pr.op = "createEvent" /\ pr.pc = "cr_appended"
                    /\ pr.data.syncToCalendar # "true") => procs'[p].pc # "cal_sync"]_vars

C17_Witness ==
    \E p \in Procs :
        /\ procs[p].op = "createEvent"
        /\ procs[p].pc = "done"
        /\ procs[p].data.syncToCalendar = "true"
        /\ procs[p].data.createdTime = Undef
        /\ procs[p].result.success
        /\ calendar = <<>>
        /\ Last(sheets[procs[p].sheet]) = procs[p].row

\* C19: the original record updateEventLog resolves is a record carrying the
\* payload's eventId (or id) whenever the list it read holds one; a record
\* found by rowIndex is the original only when the list holds no record with
\* that eventId.  (Stated of the calls that get past the resolution: a call
\* that throws keeps no payload.)
C19_EventIdMatchPreferred ==
    \A p \in Procs :
        LET pr == procs[p]
            id == InputEventId(pr.data)
            WithId == {i \in 1 .. Len(pr.logs) : Truthy(id) /\ pr.logs[i].eventId = id}
        IN  (pr.op = "updateEventLog" /\ pr.pc # "failed") =>
              /\ WithId # {} =>
                    /\ Len(pr.original) = 1
                    /\ pr.original[1] = pr.logs[CHOOSE i \in WithId : \A j \in WithId : i <= j]
              /\ (WithId = {} /\ Len(pr.original) = 1) =>
                    /\ IsInteger(ToNumber(pr.arg))
                    /\ pr.original[1].rowIndex = ToNumber(pr.arg).n

C19_Witness ==
    \E p \in Procs :
        LET pr == procs[p]
        IN  /\ pr.op = "updateEventLog"
            /\ pr.pc = "done"
            /\ Len(pr.original) = 1
            /\ pr.original[1].eventId = InputEventId(pr.data)
            /\ IsInteger(ToNumber(pr.arg))
            /\ \E i \in 1 .. Len(pr.logs) :
                  /\ pr.logs[i].rowIndex = ToNumber(pr.arg).n
                  /\ pr.logs[i].eventId # pr.original[1].eventId
                  /\ pr.logs[i].eventType = pr.original[1].eventType

\* The Revision cell of a row of the general table.
RevisionOf(row) == Cell(PadRow(row, Len(_getFieldsByType("general"))), "Revision")

\* p and q update the same row, and each read it before the other wrote it.
SameRead(p, q) ==
    /\ p # q
    /\ procs[p].op = "updateEvent" /\ procs[q].op = "updateEvent"
    /\ procs[p].sheet = procs[q].sheet /\ procs[p].rowIndex = procs[q].rowIndex
    /\ Len(procs[p].currentRow) > 0 /\ procs[p].currentRow = procs[q].currentRow

\* C18: when two updates have read the same row and the first has written,
\* the write of the second stores the second's copy: every cell the second
\* did not set is back at the value both read, and the revision is the one
\* the first write had already stored, 1 above the revision both read; each
\* of the two updates then returns success.
C18_LostUpdate ==
    [][\A p, q \in Procs :
          /\ (SameRead(p, q) /\ procs[q].pc \in {"up_written", "done"}
                /\ procs[p].pc = "up_write" /\ procs'[p].pc = "up_written") =>
                LET stored == sheets'[procs[p].sheet][procs[p].rowIndex - 1]
                    read == PadRow(procs[q].currentRow, Len(stored))
                    headers == _getFieldsByType("general")
                IN  /\ stored = procs[p].row
                    /\ RevisionOf(stored) = RevisionOf(procs[q].row)
                    /\ RevisionOf(stored) = NextRevision(RevisionOf(read))
                    /\ \A i \in 1 .. Len(headers) :
                          (/\ headers[i] \notin {"LastModifiedTime", "Revision"}
                           /\ Field(procs[p].data, KeyOfHeader(headers[i], "general")) = Undef)
                             => stored[i] = read[i]
          /\ (procs[p].op = "updateEvent" /\ procs[p].pc = "up_written"
                /\ procs'[p] # procs[p]) =>
                procs'[p].pc = "done" /\ procs'[p].result.success]_vars

C18_Witness ==
    \E p, q \in Procs :
        /\ SameRead(p, q)
        /\ procs[p].pc = "done" /\ procs[p].result.success
        /\ procs[q].pc = "done" /\ procs[q].result.success
        /\ sheets[procs[p].sheet][procs[p].rowIndex - 1] = procs[p].row
        /\ procs[q].data.eventName = "b"
        /\ procs[p].data.eventName = Undef
        /\ Cell(procs[p].row, "EventName") = "a"
        /\ RevisionOf(procs[p].currentRow) = "1"
        /\ RevisionOf(procs[p].row) = "2"

\* The data rows of the sheet that are not blank and not archived, by their
\* row number.
ListedRows ==
    {i \in 2 .. Len(listing.rows) :
        /\ Len(listing.rows[i]) > 0
        /\ listing.rows[i][2] # ARCHIVED}

\* C20: a listing the store answered holds one record for each data row
\* that is not blank and not archived and no other record, and no record is
\* followed by one with a later time, the time being the last-update time or,
\* when that is empty, the created time.
C20_ListingFilteredAndSorted ==
    (listing.taken /\ listing.fetched) =>
        LET result == listing.result
        IN  /\ {result[k].rowIndex : k \in 1 .. Len(result)} = ListedRows
            /\ Len(result) = Cardinality(ListedRows)
            /\ \A k \in 1 .. Len(result) :
                  LET row == listing.rows[result[k].rowIndex]
                  IN  /\ result[k].opportunityId = row[1]
                      /\ result[k].currentStatus = row[2]
                      /\ result[k].createdTime = row[3]
                      /\ result[k].lastUpdateTime = (IF Len(row) > 3 THEN row[4] ELSE "")
            /\ \A k \in 1 .. Len(result) - 1 :
                  LET timeOf(o) == IF o.lastUpdateTime # "" THEN o.lastUpdateTime
                                   ELSE o.createdTime
                  IN  ParseIso(timeOf(result[k])) >= ParseIso(timeOf(result[k + 1]))

C20_Witness ==
    /\ listing.taken /\ listing.fetched
    /\ Len(listing.rows) = 4
    /\ Len(listing.result) = 2
    /\ listing.result[1].rowIndex > listing.result[2].rowIndex
    /\ listing.result[1].lastUpdateTime = ""
    /\ listing.result[1].createdTime = Iso(1)
    /\ listing.result[2].lastUpdateTime = Iso(0)
    /\ \E i \in 2 .. 4 : Len(listing.rows[i]) > 0 /\ listing.rows[i][2] = ARCHIVED

\* C21: an updateEventLog call whose identifier is a string that is no number
\* and is the eventId of no record of the list it read has thrown the
\* not-found error and has issued no update, delete or append.
C21_UnknownIdFailsNoWrite ==
    \A p \in Procs :
        LET pr == procs[p]
        IN  (/\ pr.op = "updateEventLog"
             /\ pr.arg.kind = "str" /\ ToNumber(pr.arg).nan
             /\ \A i \in 1 .. Len(pr.logs) : pr.logs[i].eventId # TextOf(pr.arg))
            => /\ pr.pc = "failed"
               /\ pr.err = "EventIdNotFound"
               /\ pr.calls = <<>>

C21_Witness ==
    \E p \in Procs :
        /\ procs[p].op = "updateEventLog"
        /\ procs[p].arg.kind = "str" /\ ToNumber(procs[p].arg).nan
        /\ Len(procs[p].logs) > 0
        /\ Len(procs[p].original) > 0
        /\ \A i \in 1 .. Len(procs[p].logs) : procs[p].logs[i].eventId # TextOf(procs[p].arg)
        /\ procs[p].pc = "failed"
        /\ procs[p].err = "EventIdNotFound"

\* An update that has read its row and built the row to write.
Built(pr) == pr.op = "updateEvent" /\ pr.pc \in {"up_write", "up_written", "done"}

\* C22: an update of a row that has cells but fewer than the schema has
\* columns builds a row of exactly the schema's width, in which each cell
\* the row lacked is empty unless the update sets it; and an update fails as
\* not found only when the range it read has no cell at all.
C22_ShortRowPadded ==
    \A p \in Procs :
        LET pr == procs[p]
            headers == _getFieldsByType(pr.data.eventType)
        IN  /\ (Built(pr) /\ Len(pr.currentRow) < Len(headers)) =>
                  /\ Len(pr.row) = Len(headers)
                  /\ \A i \in Len(pr.currentRow) + 1 .. Len(headers) :
                        \/ headers[i] \in {"LastModifiedTime", "Revision"}
                        \/ Field(pr.data, KeyOfHeader(headers[i], pr.data.eventType)) # Undef
                        \/ pr.row[i] = ""
            /\ (pr.op = "updateEvent" /\ pr.pc = "failed" /\ pr.err = "NotFound") =>
                  \A width \in 1 .. Len(EVENT_LOG_COMMON_FIELDS) + 1 :
                      StoreGet(sheets, pr.sheet, pr.rowIndex, width) = <<>>

C22_Witness ==
    \E p \in Procs :
        /\ Built(procs[p])
        /\ procs[p].pc = "done" /\ procs[p].result.success
        /\ Len(procs[p].currentRow) = 2
        /\ procs[p].data.eventType = "iot"
        /\ procs[p].data.iot_deviceScale = Undef
        /\ Len(sheets[procs[p].sheet][1]) = Len(_getFieldsByType("iot"))
        /\ sheets[procs[p].sheet][1][3] = ""

\* C23: the revision an update writes is the stored revision plus 1 when
\* the stored cell parses as an integer, "0" included, and 2 when the cell is
\* empty or does not parse.
C23_RevisionFromStored ==
    \A p \in Procs :
        Built(procs[p]) =>
            LET v == ParseRev(Cell(procs[p].currentRow, "Revision"))
            IN  Cell(procs[p].row, "Revision") =
                    IF v.nan THEN "2" ELSE ToString(v.n + 1)

\* C24: a move the caller asked for by the rowIndex of a record and a new
\* type deletes the row of that record, in that record's table, and every
\* other record the call had read is still stored afterwards.
C24_MoveRemovesAddressedOnly ==
    \A p \in Procs :
        LET pr == procs[p]
        IN  (Moving(pr) /\ Len(pr.addressed) = 1) =>
              /\ pr.calls[1] = Mutation("delete",
                                        _getSheetNameByType(pr.addressed[1].eventType),
                                        pr.addressed[1].rowIndex)
              /\ \A i \in 1 .. Len(pr.logs) :
                    pr.logs[i].eventId # pr.addressed[1].eventId
                        => pr.logs[i].eventId \in StoredIds

\* An updateEventLog call that has resolved its record and taken the update
\* path, not the move.
UpdatesInPlace(pr) ==
    /\ pr.op = "updateEventLog"
    /\ Len(pr.original) = 1
    /\ pr.pc \in {"up_write", "up_written", "done"}
    /\ CountKind(pr.calls, "update") = 1

\* No two records of the list carry the same eventId.
DistinctIds(logs) ==
    \A i, j \in 1 .. Len(logs) : logs[i].eventId = logs[j].eventId => i = j

\* C25: a non-move update through updateEventLog writes the row of the
\* record it resolved: the update it issues addresses the table of that
\* record's type at that record's rowIndex.  (Stated of lists in which the
\* eventIds are distinct.)
C25_UpdateWritesResolvedRow ==
    \A p \in Procs :
        LET pr == procs[p]
        IN  (UpdatesInPlace(pr) /\ DistinctIds(pr.logs)) =>
              pr.calls = <<Mutation("update", _getSheetNameByType(pr.original[1].eventType),
                                    pr.original[1].rowIndex)>>

====
